---- MODULE Spec2Model ----
(***************************************************************************)
(* A state-machine model of vnpy_bybit/bybit_gateway.py: the REST order    *)
(* path (send_order and its three callbacks), the private websocket        *)
(* session (auth handshake, topic dispatch, order pushes) and the public   *)
(* websocket sessions (subscription registry, replay on connect, topic     *)
(* dispatch, on_ticker and on_depth), query_history, new_orderid as two    *)
(* threads run it, and the open-orders query of startup.  Handlers are     *)
(* atomic actions; what a handler emits to the event engine or to the      *)
(* wire is appended to a log variable.                                     *)
(***************************************************************************)
EXTENDS Integers, Sequences, FiniteSets, TLC

VARIABLES
    symbol_category_map,  \* global dict symbol -> category ("" = no entry)
    order_count,          \* BybitRestApi.order_count
    requests,             \* create-order requests: orderid -> request record
    order_status,         \* status of the OrderData object in request.extra
    exch_status,          \* the exchange's own state of each order ("" = unknown to it)
    trace,                \* order events given to gateway.on_order and requests given
                          \* to add_request, in program order
    raised,               \* exception that escaped the most recent handler ("" = none)
    clients,              \* BybitPublicWebsocketApi.clients (the categories with a client)
    is_connected,         \* client.is_connected per category
    conn,                 \* per category: how many times on_connected has fired
    pub_callbacks,        \* BybitPublicWebsocketApi.callbacks (registered topics)
    subscribed,           \* BybitPublicWebsocketApi.subscribed, in insertion order
    ticks,                \* BybitPublicWebsocketApi.ticks: symbol -> tick object (NoTick = none)
    tick_out,             \* what on_ticker and on_depth gave to gateway.on_tick, in order
    pub_frames,           \* how many frames on_packet has handed to a topic's callback
    exch_book,            \* per symbol, the prices the exchange's own book holds on each side
    deferred,             \* symbols whose subscribe returned at the unknown-category check
    pub_sent,             \* packets given to client.send_packet on public clients
    priv_link,            \* whether the private transport is connected
    priv_conn,            \* how many times the private on_connected has fired
    priv_auth,            \* per private connection: "none", "pending", "ok", "fail"
    priv_callbacks,       \* BybitPrivateWebsocketApi.callbacks (registered topics)
    priv_sent,            \* packets given to send_packet on the private session
    last_callback,        \* handler most recently invoked by a dispatcher ("" = none)
    hist,                 \* the query_history call in progress: its locals and position
    callers,              \* per calling thread: position in new_orderid and its locals
    clock,                \* datetime.now(), in seconds
    issued,               \* the order ids new_orderid has returned, in order of return
    order_query,          \* the open-orders request of query_order and its response
    sub_call,             \* the subscribe call of the caller's thread: position and locals
    closed,               \* whether BybitGateway.close has returned
    time_offset,          \* BybitRestApi.time_offset
    heap,                 \* the params/data dict objects given to add_request, by identity
    rest_queue,           \* requests add_request has queued and the worker has not taken
    signed,               \* requests as sign() left them when the worker sent them
    query_call,           \* on_query_time's queries: position and the params object in hand
    key,                  \* BybitRestApi.key
    secret                \* BybitRestApi.secret

restVars == <<order_count, requests, order_status, exch_status, trace>>
pubVars  == <<clients, is_connected, conn, pub_callbacks, subscribed, ticks, deferred, pub_sent>>
privVars == <<priv_link, priv_conn, priv_auth, priv_callbacks, priv_sent>>
mdVars   == <<tick_out, pub_frames, exch_book>>
histVars == <<hist>>
idVars   == <<callers, clock, issued>>
ctlVars  == <<sub_call, closed>>
clientVars == <<time_offset, heap, rest_queue, signed, query_call, key, secret>>
vars == <<symbol_category_map, restVars, raised, pubVars, privVars, mdVars, last_callback,
          histVars, idVars, order_query, ctlVars, clientVars>>

\* ---------------------------------------------------------------- bounds
MaxOrders == 2      \* send_order calls explored
MaxTrace == 6       \* length of trace explored
MaxConn == 2        \* connections explored per public session
MaxPrivConn == 2    \* connections explored on the private session
MaxTicks == 2       \* frames explored that reach on_ticker or on_depth
MaxClock == 2       \* seconds explored on the local clock

\* ------------------------------------------------------------- constants
Categories == {"spot", "linear", "inverse", "option"}

\* The instruments the exchange lists, with the category each is listed in.
Symbols == {"BTCUSDT", "ETHUSDT", "BTC-30DEC-50000-C"}

ExchangeCategory(symbol) == IF symbol = "BTC-30DEC-50000-C" THEN "option" ELSE "linear"

STATUS_BYBIT2VT ==
    [s \in {"Created", "New", "PartiallyFilled", "Filled", "Cancelled", "Rejected"} |->
        CASE s = "Created" -> "NOTTRADED"
          [] s = "New" -> "NOTTRADED"
          [] s = "PartiallyFilled" -> "PARTTRADED"
          [] s = "Filled" -> "ALLTRADED"
          [] s = "Cancelled" -> "CANCELLED"
          [] s = "Rejected" -> "REJECTED"]

ORDER_TYPE_VT2BYBIT == [t \in {"LIMIT", "MARKET"} |-> IF t = "LIMIT" THEN "Limit" ELSE "Market"]

\* Order types a caller may put in an OrderRequest; STOP has no entry in the map.
OrderTypes == {"LIMIT", "STOP"}

\* OrderData.status of a freshly created order (req.create_order_data).
SUBMITTING == "SUBMITTING"

\* The empty orderLinkId, and the absent exchange order id.
NoLinkId == 0
NoExchId == <<>>

\* The exchange order id (orderId) the exchange assigns to the order created
\* with orderLinkId n.
ExchId(n) == <<"X", n>>

\* ------------------------------------------------------------ REST: orders

\* new_orderid: the counter after the increment is the id's suffix; the
\* date-time prefix does not distinguish ids of one session and is left out.
new_orderid(count) == count + 1

OrderEvent(orderid, status, by, orderId, type) ==
    [kind |-> "order", orderid |-> orderid, status |-> status, by |-> by,
     orderId |-> orderId, category |-> "", type |-> type]

RequestEntry(orderid, category, type) ==
    [kind |-> "request", orderid |-> orderid, status |-> "", by |-> "send_order",
     orderId |-> NoExchId, category |-> category, type |-> type]

\* dict.get(symbol, "") on symbol_category_map
CategoryOf(map, symbol) == map[symbol]

\* send_order up to the evaluation of ORDER_TYPE_VT2BYBIT[req.type]: the
\* submitting event is pushed first; the request is enqueued only when the
\* dict lookup does not raise.
SendOrderRaises(type) == type \notin DOMAIN ORDER_TYPE_VT2BYBIT

SendOrderOutputMutant(orderid, category, type) ==
    IF SendOrderRaises(type)
    THEN <<OrderEvent(orderid, SUBMITTING, "send_order", NoExchId, type)>>
    ELSE <<RequestEntry(orderid, category, type),
           OrderEvent(orderid, SUBMITTING, "send_order", NoExchId, type)>>

SendOrderOutput(orderid, category, type) ==
    IF SendOrderRaises(type)
    THEN <<OrderEvent(orderid, SUBMITTING, "send_order", NoExchId, type)>>
    ELSE <<OrderEvent(orderid, SUBMITTING, "send_order", NoExchId, type),
           RequestEntry(orderid, category, type)>>

send_order(symbol, type) ==
    /\ order_count < MaxOrders
    /\ LET orderid == new_orderid(order_count)
           category == CategoryOf(symbol_category_map, symbol)
       IN /\ Len(trace) + Len(SendOrderOutput(orderid, category, type)) <= MaxTrace
          /\ order_count' = orderid
          /\ order_status' = (orderid :> SUBMITTING) @@ order_status
          /\ trace' = trace \o SendOrderOutput(orderid, category, type)
          /\ IF SendOrderRaises(type)
             THEN /\ requests' = requests
                  /\ raised' = "KeyError: ORDER_TYPE_VT2BYBIT"
             ELSE /\ requests' = (orderid :> [category |-> category, type |-> type,
                                              state |-> "queued", outcome |-> ""]) @@ requests
                  /\ raised' = ""
    /\ UNCHANGED <<mdVars, ctlVars, clientVars, histVars, idVars, order_query,
                   symbol_category_map, exch_status,
                   pubVars, privVars, last_callback>>

\* The exchange receives a queued create-order request and accepts or rejects
\* it; a request without a category cannot be accepted.
ExchangeReceive(orderid, verdict) ==
    /\ orderid \in DOMAIN requests
    /\ requests[orderid].state = "queued"
    /\ verdict = "accepted" => requests[orderid].category # ""
    /\ requests' = [requests EXCEPT ![orderid].state = verdict]
    /\ exch_status' = [exch_status EXCEPT ![orderid] =
                          IF verdict = "accepted" THEN "Accepted" ELSE ""]
    /\ UNCHANGED <<mdVars, ctlVars, clientVars, histVars, idVars, order_query,
                   symbol_category_map, order_count,
                   order_status, trace, raised,
                   pubVars, privVars, last_callback>>

\* on_send_order: `if data["retCode"]`
OnSendOrderRejectsMutant(retCode) == FALSE

OnSendOrderRejects(retCode) == retCode # 0

RetCodes == {0, 10001}

Finish(orderid, outcome) ==
    requests' = [requests EXCEPT ![orderid].state = "done", ![orderid].outcome = outcome]

Reject(orderid, by) ==
    /\ Len(trace) < MaxTrace
    /\ order_status' = [order_status EXCEPT ![orderid] = "REJECTED"]
    /\ trace' = Append(trace, OrderEvent(orderid, "REJECTED", by, NoExchId,
                                         requests[orderid].type))

\* The response callback: the exchange answered, with retCode zero exactly
\* when it accepted the order.
on_send_order(orderid, retCode) ==
    /\ orderid \in DOMAIN requests
    /\ \/ requests[orderid].state = "accepted" /\ retCode = 0
       \/ requests[orderid].state = "rejected" /\ retCode # 0
    /\ IF OnSendOrderRejects(retCode)
       THEN Reject(orderid, "on_send_order")
       ELSE UNCHANGED <<order_status, trace>>
    /\ Finish(orderid, IF retCode = 0 THEN "ok" ELSE "retcode")
    /\ raised' = ""
    /\ UNCHANGED <<mdVars, ctlVars, clientVars, histVars, idVars, order_query,
                   symbol_category_map, order_count,
                   exch_status, pubVars, privVars,
                   last_callback>>

\* The HTTP status was not 2xx; the exchange may or may not have the order.
on_send_order_failed(orderid) ==
    /\ orderid \in DOMAIN requests
    /\ requests[orderid].state \in {"queued", "accepted", "rejected"}
    /\ Reject(orderid, "on_send_order_failed")
    /\ Finish(orderid, "failed")
    /\ raised' = ""
    /\ UNCHANGED <<mdVars, ctlVars, clientVars, histVars, idVars, order_query,
                   symbol_category_map, order_count,
                   exch_status, pubVars, privVars,
                   last_callback>>

\* The transport raised (timeout, connection reset); the exchange may or may
\* not have the order.
on_send_order_error(orderid) ==
    /\ orderid \in DOMAIN requests
    /\ requests[orderid].state \in {"queued", "accepted", "rejected"}
    /\ Reject(orderid, "on_send_order_error")
    /\ Finish(orderid, "error")
    /\ raised' = ""
    /\ UNCHANGED <<mdVars, ctlVars, clientVars, histVars, idVars, order_query,
                   symbol_category_map, order_count,
                   exch_status, pubVars, privVars,
                   last_callback>>

\* on_query_contract: every listed symbol is entered under the response's category.
on_query_contract(category, list) ==
    /\ list \subseteq {s \in Symbols : ExchangeCategory(s) = category}
    /\ symbol_category_map' = [s \in Symbols |->
                                  IF s \in list THEN category ELSE symbol_category_map[s]]
    /\ raised' = ""
    /\ UNCHANGED <<mdVars, ctlVars, clientVars, histVars, idVars, order_query, restVars,
                   pubVars, privVars,
                   last_callback>>

\* ------------------------------------------------- private session: pushes

\* The order statuses the exchange can report next for an order it holds,
\* given the one it reported last ("Accepted": it holds the order and has
\* reported nothing yet).  A session delivers its frames in order, so the
\* statuses of one order arrive in the exchange's own order; a status may be
\* repeated while the order is open.  "PartiallyFilledCanceled" is a status of
\* the exchange that STATUS_BYBIT2VT has no entry for.
ExchNext(s) ==
    CASE s = "Accepted" -> {"Created", "New"}
      [] s = "Created" -> {"New", "Rejected"}
      [] s = "New" -> {"New", "PartiallyFilled", "Filled", "Cancelled"}
      [] s = "PartiallyFilled" ->
            {"PartiallyFilled", "Filled", "Cancelled", "PartiallyFilledCanceled"}
      [] OTHER -> {}

\* The entries d of packet["data"] the exchange can send in state st: an entry
\* is about one order it holds, names it by orderId, carries the order's
\* orderLinkId or leaves it empty, and reports a status that can come next.
Entries(st) ==
    UNION {{[orderLinkId |-> l, orderId |-> ExchId(n), orderStatus |-> s] :
               l \in {NoLinkId, n}, s \in ExchNext(st[n])} : n \in DOMAIN st}

ExchAfter(st, d) == [st EXCEPT ![d.orderId[2]] = d.orderStatus]

\* The frames explored carry one entry each.
Frames(st) == {<<d>> : d \in Entries(st)}

RECURSIVE ExchAfterAll(_, _)
ExchAfterAll(st, data) ==
    IF data = <<>> THEN st ELSE ExchAfterAll(ExchAfter(st, Head(data)), Tail(data))

\* BybitPrivateWebsocketApi.on_order: one OrderData per entry, its orderid
\* taken from orderLinkId and its status from STATUS_BYBIT2VT; the dict lookup
\* raises on a status without an entry and ends the loop there.
OnOrderId(d) == d.orderLinkId

RECURSIVE OnOrderEvents(_)
OnOrderEvents(data) ==
    IF data = <<>> \/ Head(data).orderStatus \notin DOMAIN STATUS_BYBIT2VT
    THEN <<>>
    ELSE <<OrderEvent(OnOrderId(Head(data)), STATUS_BYBIT2VT[Head(data).orderStatus],
                      "on_order", Head(data).orderId, "")>>
         \o OnOrderEvents(Tail(data))

OnOrderRaises(data) ==
    \E i \in 1..Len(data) : data[i].orderStatus \notin DOMAIN STATUS_BYBIT2VT

\* The handler's effect on the program and, with it, the exchange's move that
\* the frame reports.
OnOrderEffect(data) ==
    /\ data \in Frames(exch_status)
    /\ Len(trace) + Len(data) <= MaxTrace
    /\ exch_status' = ExchAfterAll(exch_status, data)
    /\ trace' = trace \o OnOrderEvents(data)
    /\ raised' = IF OnOrderRaises(data) THEN "KeyError: STATUS_BYBIT2VT" ELSE ""

\* The handler run on a session that has the topic registered.
on_order(data) ==
    /\ OnOrderEffect(data)
    /\ UNCHANGED <<mdVars, ctlVars, clientVars, histVars, idVars, order_query,
                   symbol_category_map, order_count,
                   requests, order_status,
                   pubVars, privVars, last_callback>>

\* An order of the account that this session neither sent nor loaded (placed
\* from the exchange's own front end or by another program): its exchange id,
\* and the link id its creator gave it, if any.
ForeignExchId == ExchId(0)

ForeignLinkId == -1

ForeignFrames ==
    {<<[orderLinkId |-> l, orderId |-> ForeignExchId, orderStatus |-> s]>> :
        l \in {NoLinkId, ForeignLinkId}, s \in {"New"}}

\* on_order given a frame about such an order: the exchange's state of the
\* session's own orders does not move.
on_order_foreign(data) ==
    /\ data \in ForeignFrames
    /\ Len(trace) + Len(data) <= MaxTrace
    /\ trace' = trace \o OnOrderEvents(data)
    /\ raised' = IF OnOrderRaises(data) THEN "KeyError: STATUS_BYBIT2VT" ELSE ""
    /\ UNCHANGED <<mdVars, ctlVars, clientVars, histVars, idVars, order_query,
                   symbol_category_map, order_count,
                   requests, order_status, exch_status, pubVars, privVars, last_callback>>

\* ------------------------------------------ private session: handshake
PrivPacket(op, topic, by) == [op |-> op, topic |-> topic, conn |-> priv_conn', by |-> by]

\* login(): one auth packet.
Login(by) == <<PrivPacket("auth", "", by)>>

\* BybitPrivateWebsocketApi.on_connected
OnConnectedPacketsMutant ==
    Login("on_connected") \o <<PrivPacket("subscribe", "order", "on_connected")>>

OnConnectedPackets == Login("on_connected")

private_on_connected ==
    /\ ~priv_link
    /\ priv_conn < MaxPrivConn
    /\ priv_link' = TRUE
    /\ priv_conn' = priv_conn + 1
    /\ priv_auth' = Append(priv_auth, "pending")
    /\ priv_sent' = priv_sent \o OnConnectedPackets
    /\ raised' = ""
    /\ UNCHANGED <<mdVars, ctlVars, clientVars, histVars, idVars, order_query,
                   symbol_category_map, restVars,
                   pubVars, priv_callbacks, last_callback>>

\* BybitPrivateWebsocketApi.on_disconnected only writes a log line.
private_on_disconnected ==
    /\ priv_link
    /\ priv_link' = FALSE
    /\ raised' = ""
    /\ UNCHANGED <<mdVars, ctlVars, clientVars, histVars, idVars, order_query,
                   symbol_category_map, restVars,
                   pubVars, priv_conn, priv_auth,
                   priv_callbacks, priv_sent, last_callback>>

\* The topics on_login subscribes, in its order, each with its handler.
PrivateTopics == <<"order", "execution", "position", "wallet">>

PrivateHandler(topic) ==
    CASE topic = "order" -> "on_order"
      [] topic = "execution" -> "on_trade"
      [] topic = "position" -> "on_position"
      [] topic = "wallet" -> "on_account"

\* on_login: packet.get("success", False); the field is "true", "false" or "absent".
LoginSucceededMutant(success) == success # "false"

LoginSucceeded(success) == success = "true"

on_login(success) ==
    IF LoginSucceeded(success)
    THEN /\ priv_callbacks' = priv_callbacks \cup {PrivateTopics[i] : i \in 1..Len(PrivateTopics)}
         /\ priv_sent' = priv_sent \o
                [i \in 1..Len(PrivateTopics) |-> PrivPacket("subscribe", PrivateTopics[i], "on_login")]
    ELSE UNCHANGED <<priv_callbacks, priv_sent>>

\* BybitPrivateWebsocketApi.on_packet, a frame without "topic": the server
\* answers the auth request of a connection once.
private_on_packet_op(op, success) ==
    /\ priv_link
    /\ priv_conn' = priv_conn
    /\ IF op = "auth"
       THEN /\ priv_auth[priv_conn] = "pending"
            /\ priv_auth' = [priv_auth EXCEPT ![priv_conn] =
                                IF success = "true" THEN "ok" ELSE "fail"]
            /\ on_login(success)
       ELSE UNCHANGED <<priv_auth, priv_callbacks, priv_sent>>
    /\ raised' = ""
    /\ UNCHANGED <<mdVars, ctlVars, clientVars, histVars, idVars, order_query,
                   symbol_category_map, restVars,
                   pubVars, priv_link, last_callback>>

\* BybitPrivateWebsocketApi.on_packet, a frame with "topic": self.callbacks[topic]
\* raises KeyError for a topic never registered; otherwise the handler runs.
\* Only on_order's effect is modelled; the other handlers get an empty data list.
private_on_packet_topic(topic, data) ==
    /\ priv_link
    /\ IF topic \notin priv_callbacks
       THEN /\ raised' = "KeyError: callbacks"
            /\ UNCHANGED <<restVars, last_callback>>
       ELSE /\ last_callback' = PrivateHandler(topic)
            /\ IF topic = "order" /\ data # <<>>
               THEN /\ OnOrderEffect(data)
                    /\ UNCHANGED <<order_count, requests, order_status>>
               ELSE /\ data = <<>>
                    /\ raised' = ""
                    /\ UNCHANGED restVars
    /\ UNCHANGED <<mdVars, ctlVars, clientVars, histVars, idVars, order_query,
                   symbol_category_map, pubVars,
                   privVars>>

\* Topics a frame on the private session may carry; "greeks" is a topic of the
\* exchange the gateway never subscribes.
PrivateFrameTopics == {PrivateTopics[i] : i \in 1..Len(PrivateTopics)} \cup {"greeks"}

\* ------------------------------------------------------- public sessions
\* f"tickers.{symbol}" and f"orderbook.{depth}.{symbol}"
Topic(kind, depth, symbol) == [kind |-> kind, depth |-> depth, symbol |-> symbol]

TickerTopic(symbol) == Topic("tickers", 0, symbol)

\* The topic of a frame that has no "topic" key: packet.get("topic", "").
NoTopic == Topic("", 0, "")

\* The depth subscribe() asks for, and the depth the replay in on_connected asks for.
SubscribeDepth(category) == IF category = "option" THEN 100 ELSE 200

ReplayDepth(category) == IF category = "option" THEN 25 ELSE 50

PubPacket(category, n, topic, by) ==
    [category |-> category, conn |-> n, topic |-> topic, by |-> by]

\* The two subscribe_topic calls for one symbol: each registers the topic's
\* callback and sends one subscribe packet on the category's client.
SymbolPackets(category, n, depth, symbol, by) ==
    <<PubPacket(category, n, TickerTopic(symbol), by),
      PubPacket(category, n, Topic("orderbook", depth, symbol), by)>>

\* ------------------------------------------------------------ market data
\* Levels of each side a tick object carries: bid_price_1 .. bid_price_5, ...
Levels == 5

TICK_FIELD_BYBIT2VT ==
    [field \in {"lastPrice", "highPrice24h", "lowPrice24h", "volume24h", "turnover24h",
                "openInterest"} |->
        CASE field = "lastPrice" -> "last_price"
          [] field = "highPrice24h" -> "high_price"
          [] field = "lowPrice24h" -> "low_price"
          [] field = "volume24h" -> "volume"
          [] field = "turnover24h" -> "turnover"
          [] field = "openInterest" -> "open_interest"]

\* float(text) for the decimal texts the frames of the model carry.
Float(text) ==
    CASE text = "0" -> 0
      [] text = "1" -> 1
      [] text = "5" -> 5
      [] text = "7" -> 7
      [] text = "99" -> 99
      [] text = "100" -> 100
      [] text = "101" -> 101

generate_datetimeMutant(timestamp) == [sec |-> 9, msec |-> 0]

\* generate_datetime: datetime.fromtimestamp(timestamp / 1000)
generate_datetime(timestamp) == [sec |-> timestamp \div 1000, msec |-> timestamp % 1000]

\* datetime.now() when subscribe runs: an instant no frame of the model carries.
DatetimeNow == [sec |-> 9, msec |-> 0]

\* self.ticks has no entry for the symbol.
NoTick == [symbol |-> ""]

\* TickData(symbol, exchange, datetime=datetime.now(), ...): every price and
\* volume field of a new tick is 0.
NewTick(symbol) ==
    [symbol |-> symbol, datetime |-> DatetimeNow,
     last_price |-> 0, high_price |-> 0, low_price |-> 0,
     volume |-> 0, turnover |-> 0, open_interest |-> 0,
     bid_price |-> [i \in 1..Levels |-> 0], bid_volume |-> [i \in 1..Levels |-> 0],
     ask_price |-> [i \in 1..Levels |-> 0], ask_volume |-> [i \in 1..Levels |-> 0]]

TickerUpdateMutant(tick, packet) ==
    [name \in DOMAIN tick |->
        IF name = "datetime" THEN generate_datetime(packet.ts)
        ELSE IF \E field \in DOMAIN TICK_FIELD_BYBIT2VT : TICK_FIELD_BYBIT2VT[field] = name
             THEN LET field == CHOOSE f \in DOMAIN TICK_FIELD_BYBIT2VT :
                                   TICK_FIELD_BYBIT2VT[f] = name
                  IN IF field \in DOMAIN packet.data THEN Float(packet.data[field]) ELSE 0
             ELSE tick[name]]

\* on_ticker: datetime from the frame, then setattr for every key of data that
\* is a key of TICK_FIELD_BYBIT2VT.
TickerUpdate(tick, packet) ==
    LET stamped == [tick EXCEPT !.datetime = generate_datetime(packet.ts)]
        update_fields == DOMAIN packet.data \cap DOMAIN TICK_FIELD_BYBIT2VT
        Source(name) == {field \in update_fields : TICK_FIELD_BYBIT2VT[field] = name}
    IN [name \in DOMAIN stamped |->
            IF Source(name) # {}
            THEN Float(packet.data[CHOOSE field \in Source(name) : TRUE])
            ELSE stamped[name]]

\* on_depth, one side and one column (1 = price, 2 = volume):
\* for i in range(min(5, len(side_data))): setattr(tick, f"..._{i+1}", float(...))
SideUpdate(old, side_data, column) ==
    LET n == IF Len(side_data) < Levels THEN Len(side_data) ELSE Levels
    IN [i \in 1..Levels |-> IF i <= n THEN Float(side_data[i][column]) ELSE old[i]]

DepthUpdate(tick, packet) ==
    [tick EXCEPT !.datetime = generate_datetime(packet.ts),
                 !.bid_price = SideUpdate(@, packet.b, 1),
                 !.bid_volume = SideUpdate(@, packet.b, 2),
                 !.ask_price = SideUpdate(@, packet.a, 1),
                 !.ask_volume = SideUpdate(@, packet.a, 2)]

\* copy(tick): the consumer gets a new object holding the field values of the
\* moment (alias = FALSE), not the instance kept in self.ticks.
copyMutant(symbol, tick) == [alias |-> TRUE, symbol |-> symbol, value |-> tick]

copy(symbol, tick) == [alias |-> FALSE, symbol |-> symbol, value |-> tick]

\* The field values a consumer reads from an object it was given.
Emitted(object, tks) == IF object.alias THEN tks[object.symbol] ELSE object.value

\* What the exchange's book holds after it has sent the frame: a snapshot is
\* the whole book, a delta entry of size "0" removes its price, any other
\* entry inserts or updates its price.
SidePrices(side_data) == {side_data[i][1] : i \in 1..Len(side_data)}

SideAfter(prices, side_data, type) ==
    IF type = "snapshot" THEN SidePrices(side_data)
    ELSE (prices \ {side_data[i][1] : i \in {j \in 1..Len(side_data) : side_data[j][2] = "0"}})
         \cup {side_data[i][1] : i \in {j \in 1..Len(side_data) : side_data[j][2] # "0"}}

BookAfter(book, packet) ==
    [known |-> TRUE,
     b |-> SideAfter(book.b, packet.b, packet.type),
     a |-> SideAfter(book.a, packet.a, packet.type)]

NoBook == [known |-> FALSE, b |-> {}, a |-> {}]

\* BybitPublicWebsocketApi.on_ticker
on_ticker(packet) ==
    LET symbol == packet.topic.symbol
    IN IF ticks[symbol] = NoTick
       THEN /\ raised' = "KeyError: ticks"
            /\ UNCHANGED <<ticks, tick_out, exch_book>>
       ELSE LET tick == TickerUpdate(ticks[symbol], packet)
            IN /\ ticks' = [ticks EXCEPT ![symbol] = tick]
               /\ tick_out' = Append(tick_out, [by |-> "on_ticker", packet |-> packet,
                                                tick |-> copy(symbol, tick)])
               /\ raised' = ""
               /\ UNCHANGED exch_book

\* BybitPublicWebsocketApi.on_depth
on_depth(packet) ==
    LET symbol == packet.s
    IN /\ exch_book' = [exch_book EXCEPT ![symbol] = BookAfter(@, packet)]
       /\ IF ticks[symbol] = NoTick
          THEN /\ raised' = "KeyError: ticks"
               /\ UNCHANGED <<ticks, tick_out>>
          ELSE LET tick == DepthUpdate(ticks[symbol], packet)
               IN /\ ticks' = [ticks EXCEPT ![symbol] = tick]
                  /\ tick_out' = Append(tick_out, [by |-> "on_depth", packet |-> packet,
                                                   tick |-> copy(symbol, tick)])
                  /\ raised' = ""

\* BybitPublicWebsocketApi.subscribe
public_subscribe(symbol) ==
    /\ raised' = ""
    /\ IF \E i \in 1..Len(subscribed) : subscribed[i] = symbol
       THEN UNCHANGED pubVars
       ELSE /\ subscribed' = Append(subscribed, symbol)
            /\ ticks' = [ticks EXCEPT ![symbol] = NewTick(symbol)]
            /\ conn' = conn
            /\ LET category == CategoryOf(symbol_category_map, symbol)
               IN IF category = ""
                  THEN /\ deferred' = deferred \cup {symbol}
                       /\ UNCHANGED <<clients, is_connected, pub_callbacks, pub_sent>>
                  ELSE /\ deferred' = deferred
                       \* get_client: a new client starts with is_connected = False
                       /\ clients' = clients \cup {category}
                       /\ is_connected' = is_connected
                       /\ IF category \in clients /\ is_connected[category]
                          THEN LET out == SymbolPackets(category, conn[category],
                                                        SubscribeDepth(category), symbol,
                                                        "subscribe")
                               IN /\ pub_sent' = pub_sent \o out
                                  /\ pub_callbacks' = pub_callbacks \cup
                                        {out[i].topic : i \in 1..Len(out)}
                          ELSE UNCHANGED <<pub_callbacks, pub_sent>>
    /\ UNCHANGED <<mdVars, ctlVars, clientVars, histVars, idVars, order_query,
                   symbol_category_map, restVars,
                   privVars, last_callback>>

\* on_connected: `if symbol_category_map.get(req.symbol, "") != category: continue`
ReplaysMutant(map, symbol, category) == TRUE

Replays(map, symbol, category) == CategoryOf(map, symbol) = category

RECURSIVE Replay(_, _, _, _)
Replay(reqs, map, category, n) ==
    IF reqs = <<>> THEN <<>>
    ELSE (IF Replays(map, Head(reqs), category)
          THEN SymbolPackets(category, n, ReplayDepth(category), Head(reqs), "on_connected")
          ELSE <<>>) \o Replay(Tail(reqs), map, category, n)

\* BybitPublicWebsocketApi.on_connected: fired by the transport each time the
\* client of the category has (re)established its connection.
public_on_connected(category) ==
    /\ category \in clients
    /\ ~is_connected[category]
    /\ conn[category] < MaxConn
    /\ is_connected' = [is_connected EXCEPT ![category] = TRUE]
    /\ conn' = [conn EXCEPT ![category] = @ + 1]
    /\ LET out == Replay(subscribed, symbol_category_map, category, conn[category] + 1)
       IN /\ pub_sent' = pub_sent \o out
          /\ pub_callbacks' = pub_callbacks \cup {out[i].topic : i \in 1..Len(out)}
    /\ raised' = ""
    /\ UNCHANGED <<mdVars, ctlVars, clientVars, histVars, idVars, order_query,
                   symbol_category_map, restVars,
                   clients, subscribed, ticks, deferred,
                   privVars, last_callback>>

\* BybitPublicWebsocketApi.on_disconnected (get_client finds the existing client).
\* A connection is lost only while the reconnection that follows is within MaxConn.
public_on_disconnected(category) ==
    /\ category \in clients
    /\ is_connected[category]
    /\ conn[category] < MaxConn
    /\ is_connected' = [is_connected EXCEPT ![category] = FALSE]
    /\ raised' = ""
    /\ UNCHANGED <<mdVars, ctlVars, clientVars, histVars, idVars, order_query,
                   symbol_category_map, restVars,
                   clients, conn, pub_callbacks, subscribed,
                   ticks, deferred, pub_sent, privVars, last_callback>>

\* A frame as on_packet gets it: ticker frames carry data, orderbook frames
\* carry type, s, b and a (each entry of b and a is <<price, size>>).
Packet(topic, ts, type, data, s, b, a) ==
    [topic |-> topic, ts |-> ts, type |-> type, data |-> data, s |-> s, b |-> b, a |-> a]

NoData == [field \in {} |-> ""]

\* BybitPublicWebsocketApi.on_packet: a frame without topic is ignored;
\* self.callbacks[topic] raises KeyError for a topic never registered;
\* otherwise the topic's handler runs.
public_on_packet(category, packet) ==
    /\ category \in clients
    /\ is_connected[category]
    /\ IF packet.topic = NoTopic
       THEN /\ raised' = ""
            /\ UNCHANGED <<last_callback, ticks, mdVars>>
       ELSE IF packet.topic \notin pub_callbacks
            THEN /\ raised' = "KeyError: callbacks"
                 /\ UNCHANGED <<last_callback, ticks, mdVars>>
            ELSE /\ Len(tick_out) < MaxTicks
                 /\ pub_frames' = pub_frames + 1
                 /\ IF packet.topic.kind = "tickers"
                    THEN last_callback' = "on_ticker" /\ on_ticker(packet)
                    ELSE last_callback' = "on_depth" /\ on_depth(packet)
    /\ UNCHANGED <<symbol_category_map, restVars, clients, is_connected, conn, pub_callbacks,
                   subscribed, deferred, pub_sent, privVars, histVars, idVars, order_query,
                   ctlVars, clientVars>>

\* The frames the exchange sends on a public session for its instruments.
\* A ticker frame carries any part of the fields; "markPrice" is a field of
\* the exchange that TICK_FIELD_BYBIT2VT does not list.
TickerFields(K) ==
    {[field \in K |-> CASE field = "lastPrice" -> v
                        [] field = "volume24h" -> "5"
                        [] field = "markPrice" -> "7"] : v \in {"100", "101"}}

TickerFrames(symbols) ==
    {Packet(TickerTopic(s), ts, "snapshot", data, "", <<>>, <<>>) :
        s \in symbols, ts \in {1000, 2500},
        data \in UNION {TickerFields(K) : K \in SUBSET {"lastPrice", "volume24h", "markPrice"}}}

\* An orderbook snapshot lists a side best price first, every size positive; a
\* delta lists changed levels, size "0" for a level that is gone.
SnapshotFrames(symbols) ==
    {Packet(Topic("orderbook", d, s), 2000, "snapshot", NoData, s, b, a) :
        s \in symbols, d \in {50, 200},
        b \in {<<>>, <<<<"100", "1">>>>, <<<<"99", "1">>>>, <<<<"100", "1">>, <<"99", "5">>>>},
        a \in {<<>>, <<<<"101", "1">>>>}}

DeltaFrames(symbols) ==
    {Packet(Topic("orderbook", d, s), 3000, "delta", NoData, s, b, <<>>) :
        s \in symbols, d \in {50, 200},
        b \in {<<<<p, v>>>> : p \in {"99", "100"}, v \in {"0", "1"}}}

\* Frames of topics the gateway never subscribes, and one that carries no topic.
OtherFrames ==
    {Packet(t, 1000, "snapshot", NoData, "", <<>>, <<>>) :
        t \in {NoTopic} \cup {Topic("publicTrade", 0, s) : s \in Symbols}
                        \cup {Topic("orderbook", 1, s) : s \in Symbols}}

\* The exchange sends a topic's frames on the connection that subscribed the
\* topic, and orderbook deltas only after the snapshot of the book.
ExchangeSends(category, packet) ==
    /\ \E i \in 1..Len(pub_sent) : /\ pub_sent[i].topic = packet.topic
                                   /\ pub_sent[i].category = category
                                   /\ pub_sent[i].conn = conn[category]
    /\ packet.type = "delta" => exch_book[packet.s].known

\* ----------------------------------------------------------- query_history
Intervals == {"MINUTE", "HOUR", "DAILY", "WEEKLY"}

INTERVAL_VT2BYBIT ==
    [i \in Intervals |-> CASE i = "MINUTE" -> "1" [] i = "HOUR" -> "60"
                           [] i = "DAILY" -> "D" [] i = "WEEKLY" -> "W"]

\* timedelta of one bar, in seconds
TIMEDELTA_MAP ==
    [i \in Intervals |-> CASE i = "MINUTE" -> 60 [] i = "HOUR" -> 3600
                           [] i = "DAILY" -> 86400 [] i = "WEEKLY" -> 604800]

\* count: int = 200, the page size asked for
HistoryCount == 200

\* int(req.start.timestamp()) of the requests explored
StartTimes == {0, 86400}

HistoryParams(symbol, interval, start_time) ==
    [symbol |-> symbol, interval |-> INTERVAL_VT2BYBIT[interval], from |-> start_time,
     limit |-> HistoryCount]

Response(status_code, ret_code, result) ==
    [status_code |-> status_code, ret_code |-> ret_code, result |-> result]

NoResponse == Response(0, 0, <<>>)

\* No query_history call has been made yet.
IdleHistory ==
    [pc |-> "idle", symbol |-> "", interval |-> "", start |-> 0, start_time |-> 0,
     params |-> <<>>, history |-> <<>>, resp |-> NoResponse, received |-> 0]

\* The width of a bar as the server reads the "interval" parameter.
ServerWidth(text) ==
    CASE text = "1" -> 60 [] text = "60" -> 3600 [] text = "D" -> 86400 [] text = "W" -> 604800

\* n consecutive bars from the requested start, one interval apart.
ServerBars(params, n) ==
    [i \in 1..n |-> [open_time |-> params.from + (i - 1) * ServerWidth(params.interval)]]

\* What the server may answer to a page request: an HTTP error, an error
\* code, or a page of no bars, of a few bars, or of limit bars.
Responses(params) ==
    {Response(500, 0, <<>>), Response(200, 10001, <<>>)}
    \cup {Response(200, 0, ServerBars(params, n)) : n \in {0, 3, params.limit}}

\* BybitRestApi.query_history, from entry to its first self.request
query_history(symbol, start, interval) ==
    /\ hist.pc # "request"
    /\ hist' = [pc |-> "request", symbol |-> symbol, interval |-> interval, start |-> start,
                start_time |-> start, params |-> HistoryParams(symbol, interval, start),
                history |-> <<>>, resp |-> NoResponse, received |-> 0]
    /\ raised' = ""
    /\ UNCHANGED <<symbol_category_map, restVars, pubVars, privVars, mdVars, ctlVars,
                   clientVars, last_callback,
                   idVars, order_query>>

\* BybitRestApi.query_history, from the return of self.request on: the loop
\* breaks on a non-2xx status, a nonzero ret_code or an empty result; for the
\* first bar of any other page it calls generate_datetime_2, a name the module
\* does not define, so NameError leaves query_history.
query_history_response(resp) ==
    /\ hist.pc = "request"
    /\ IF resp.status_code \div 100 # 2 \/ resp.ret_code # 0 \/ resp.result = <<>>
       THEN /\ hist' = [hist EXCEPT !.pc = "returned", !.resp = resp]
            /\ raised' = ""
       ELSE /\ hist' = [hist EXCEPT !.pc = "raised", !.resp = resp,
                                    !.received = @ + Len(resp.result)]
            /\ raised' = "NameError: generate_datetime_2"
    /\ UNCHANGED <<symbol_category_map, restVars, pubVars, privVars, mdVars, ctlVars,
                   clientVars, last_callback,
                   idVars, order_query>>

\* ------------------------------------------------- new_orderid, by thread
\* The threads that call send_order: the event engine's (strategies) and the
\* user interface's (manual orders).
Threads == {"event", "ui"}

IdleCaller == [pc |-> "idle", prefix |-> 0, count |-> 0]

\* prefix + suffix; strftime("%Y%m%d-%H%M%S-") renders the second of the call,
\* str(n).rjust(8, "0") a text that differs for different n.
OrderId(prefix, suffix) == <<prefix, suffix>>

\* datetime.now() moves on.
ClockTick ==
    /\ clock < MaxClock
    /\ clock' = clock + 1
    /\ UNCHANGED <<symbol_category_map, restVars, raised, pubVars, privVars, mdVars, ctlVars,
                   clientVars,
                   last_callback, histVars, callers, issued, order_query>>

\* new_orderid: prefix = datetime.now().strftime(...)
new_orderid_prefix(t) ==
    /\ callers[t].pc = "idle"
    /\ Len(issued) + Cardinality({u \in Threads : callers[u].pc # "idle"}) < MaxOrders
    /\ callers' = [callers EXCEPT ![t] = [pc |-> "load", prefix |-> clock, count |-> 0]]
    /\ UNCHANGED <<symbol_category_map, restVars, raised, pubVars, privVars, mdVars, ctlVars,
                   clientVars,
                   last_callback, histVars, clock, issued, order_query>>

\* self.order_count += 1, the read of the attribute
order_count_load(t) ==
    /\ callers[t].pc = "load"
    /\ callers' = [callers EXCEPT ![t].pc = "store", ![t].count = order_count]
    /\ UNCHANGED <<symbol_category_map, restVars, raised, pubVars, privVars, mdVars, ctlVars,
                   clientVars,
                   last_callback, histVars, clock, issued, order_query>>

\* self.order_count += 1, the write of the sum
order_count_store(t) ==
    /\ callers[t].pc = "store"
    /\ order_count' = callers[t].count + 1
    /\ callers' = [callers EXCEPT ![t].pc = "suffix"]
    /\ UNCHANGED <<symbol_category_map, requests, order_status, exch_status, trace, raised,
                   pubVars, privVars, mdVars, ctlVars, clientVars, last_callback, histVars,
                   clock, issued, order_query>>

\* suffix = str(self.order_count).rjust(8, "0"); return prefix + suffix
new_orderid_suffix(t) ==
    /\ callers[t].pc = "suffix"
    /\ issued' = Append(issued, [by |-> t, orderid |-> OrderId(callers[t].prefix, order_count)])
    /\ callers' = [callers EXCEPT ![t] = IdleCaller]
    /\ UNCHANGED <<symbol_category_map, restVars, raised, pubVars, privVars, mdVars, ctlVars,
                   clientVars,
                   last_callback, histVars, clock, order_query>>

\* ------------------------------------------------------ open-orders query
NoQuery == [state |-> "none", list |-> <<>>]

\* The orders the exchange lists as open: those in its book, with the status
\* they have at the moment it answers.
OpenStatuses == {"Created", "New", "PartiallyFilled"}

OpenOrders(st) ==
    SelectSeq([n \in 1..MaxOrders |->
                  [orderLinkId |-> n, orderId |-> ExchId(n), orderStatus |-> st[n]]],
              LAMBDA d : d.orderStatus \in OpenStatuses)

\* int(time.time() * 1000)
LocalMillis(now) == now * 1000

NoQueries == [pc |-> 0, params |-> 0]

\* BybitRestApi.on_query_time, up to its call of query_contract(): the offset
\* is stored; the four query functions follow on the same thread, and the
\* open-orders request is on its way.
on_query_time(server_time) ==
    /\ order_query.state = "none"
    /\ order_query' = [state |-> "sent", list |-> <<>>]
    /\ time_offset' = LocalMillis(clock) - server_time
    /\ query_call' = [pc |-> 1, params |-> 0]
    /\ raised' = ""
    /\ UNCHANGED <<symbol_category_map, restVars, pubVars, privVars, mdVars, ctlVars,
                   heap, rest_queue, signed, key, secret, last_callback, histVars, idVars>>

\* The exchange reads its book and answers the open-orders request.
ExchangeAnswersOrders ==
    /\ order_query.state = "sent"
    /\ order_query' = [state |-> "answered", list |-> OpenOrders(exch_status)]
    /\ UNCHANGED <<symbol_category_map, restVars, raised, pubVars, privVars, mdVars, ctlVars,
                   clientVars,
                   last_callback, histVars, idVars>>

\* One OrderData per entry of result["list"], orderid from orderLinkId and
\* status from STATUS_BYBIT2VT, each given to gateway.on_order.
OnQueryOrderEvents(list) ==
    [i \in 1..Len(list) |->
        OrderEvent(list[i].orderLinkId, STATUS_BYBIT2VT[list[i].orderStatus],
                   "on_query_order", list[i].orderId, "")]

\* BybitRestApi.on_query_order
on_query_order(retCode) ==
    /\ order_query.state = "answered"
    /\ order_query' = [state |-> "done", list |-> <<>>]
    /\ IF retCode # 0
       THEN UNCHANGED trace
       ELSE /\ Len(trace) + Len(order_query.list) <= MaxTrace
            /\ trace' = trace \o OnQueryOrderEvents(order_query.list)
    /\ raised' = ""
    /\ UNCHANGED <<symbol_category_map, order_count, requests, order_status, exch_status,
                   pubVars, privVars, mdVars, ctlVars, clientVars, last_callback, histVars, idVars>>

\* ------------------------------------- subscribe, on its caller's thread
\* subscribe runs on the thread of its caller, on_connected and
\* on_disconnected on the thread of the websocket client: the session's
\* handlers can run between the caller's read of client.is_connected and the
\* subscribe_topic calls that follow it.
NoCall == [pc |-> "idle", symbol |-> "", category |-> "", returned |-> ""]

Returned(symbol, at) == [pc |-> "done", symbol |-> symbol, category |-> "", returned |-> at]

AlreadySubscribedMutant(symbol, registry) == FALSE

\* `if req.symbol in self.subscribed: return`
AlreadySubscribed(symbol, registry) == \E i \in 1..Len(registry) : registry[i] = symbol

\* BybitPublicWebsocketApi.subscribe, from entry to `if client.is_connected`
subscribe_begin(symbol) ==
    /\ sub_call.pc # "send"
    /\ raised' = ""
    /\ IF AlreadySubscribed(symbol, subscribed)
       THEN /\ sub_call' = Returned(symbol, "registered")
            /\ UNCHANGED pubVars
       ELSE /\ subscribed' = Append(subscribed, symbol)
            /\ ticks' = [ticks EXCEPT ![symbol] = NewTick(symbol)]
            /\ UNCHANGED <<is_connected, conn, pub_callbacks, pub_sent>>
            /\ LET category == CategoryOf(symbol_category_map, symbol)
               IN IF category = ""
                  THEN /\ deferred' = deferred \cup {symbol}
                       /\ sub_call' = Returned(symbol, "unknown")
                       /\ UNCHANGED clients
                  ELSE /\ deferred' = deferred
                       /\ clients' = clients \cup {category}
                       /\ sub_call' =
                             IF category \in clients /\ is_connected[category]
                             THEN [pc |-> "send", symbol |-> symbol, category |-> category,
                                   returned |-> ""]
                             ELSE Returned(symbol, "offline")
    /\ UNCHANGED <<symbol_category_map, restVars, privVars, mdVars, last_callback, histVars,
                   idVars, order_query, closed, clientVars>>

\* BybitPublicWebsocketApi.subscribe, the two subscribe_topic calls
subscribe_send ==
    /\ sub_call.pc = "send"
    /\ LET out == SymbolPackets(sub_call.category, conn[sub_call.category],
                                SubscribeDepth(sub_call.category), sub_call.symbol,
                                "subscribe")
       IN /\ pub_sent' = pub_sent \o out
          /\ pub_callbacks' = pub_callbacks \cup {out[i].topic : i \in 1..Len(out)}
    /\ sub_call' = Returned(sub_call.symbol, "sent")
    /\ raised' = ""
    /\ UNCHANGED <<symbol_category_map, restVars, clients, is_connected, conn, subscribed,
                   ticks, deferred, privVars, mdVars, last_callback, histVars, idVars,
                   order_query, closed, clientVars>>

\* ------------------------------------------------------------------ close
\* BybitGateway.close: stops the REST client only; the two websocket stop
\* calls are commented out, so both sessions keep running and reconnecting.
close ==
    /\ ~closed
    /\ closed' = TRUE
    /\ raised' = ""
    /\ UNCHANGED <<symbol_category_map, restVars, pubVars, privVars, mdVars, last_callback,
                   histVars, idVars, order_query, sub_call, clientVars>>

\* ------------------------------------------------------ REST client: text
\* Strings the code builds and inspects character by character are
\* sequences of one-character strings; other strings are single tokens.
Digits == <<"0", "1", "2", "3", "4", "5", "6", "7", "8", "9">>

\* str() of an int
RECURSIVE str(_)
str(n) ==
    IF n < 0 THEN <<"-">> \o str(0 - n)
    ELSE IF n < 10 THEN <<Digits[n + 1]>>
    ELSE str(n \div 10) \o <<Digits[(n % 10) + 1]>>

\* str.rjust(width, fillchar)
rjust(text, width, fillchar) ==
    IF Len(text) >= width THEN text
    ELSE [i \in 1..(width - Len(text)) |-> fillchar] \o text

\* str.count(sub), for a one-character sub
count(text, sub) == Len(SelectSeq(text, LAMBDA c : c = sub))

\* datetime.now().strftime("%Y%m%d-%H%M%S-"), `now` seconds into the day explored
strftime(now) ==
    <<"2", "0", "2", "4", "0", "1", "0", "1", "-">> \o rjust(str(now), 6, "0") \o <<"-">>

\* new_orderid's return value as text: prefix + str(order_count).rjust(8, "0")
OrderIdText(orderid) == strftime(orderid[1]) \o rjust(str(orderid[2]), 8, "0")

\* The id the exchange gives order n, as text: a UUID, 8-4-4-4-12.
ExchIdText(n) ==
    rjust(str(n), 8, "0") \o <<"-">> \o rjust(<<>>, 4, "a") \o <<"-">> \o rjust(<<>>, 4, "b")
       \o <<"-">> \o rjust(<<>>, 4, "c") \o <<"-">> \o rjust(<<>>, 12, "d")

\* ----------------------------------------------- REST client: dict objects
\* A dict is a function from its keys; a value carries its str() text and
\* whether it is an int.
StrValue(text) == [int |-> FALSE, text |-> text]
IntValue(n) == [int |-> TRUE, text |-> str(n)]
Token(s) == IF s = "" THEN <<>> ELSE <<s>>
EmptyDict == [k \in {} |-> StrValue(<<>>)]

\* The keys of the dicts built here, as sorted() orders them and in the order
\* the code inserts them.
SortedKeys == <<"accountType", "category", "limit", "orderId", "orderLinkId", "settleCoin",
                "symbol">>
InsertionKeys == <<"accountType", "category", "symbol", "orderId", "orderLinkId", "limit",
                   "settleCoin">>

Items(parameters, order) == SelectSeq(order, LAMBDA k : k \in DOMAIN parameters)

RECURSIVE Join(_, _)
Join(parts, sep) ==
    IF parts = <<>> THEN <<>>
    ELSE IF Len(parts) = 1 THEN parts[1]
    ELSE parts[1] \o <<sep>> \o Join(Tail(parts), sep)

string_params == {"qty", "price", "triggerPrice", "takeProfit", "stopLoss"}
integer_params == {"positionIdx"}

\* prepare_payload.cast_values: rewrites the dict it was given
cast_values(parameters) ==
    [k \in DOMAIN parameters |->
        IF k \in string_params THEN [parameters[k] EXCEPT !.int = FALSE]
        ELSE IF k \in integer_params THEN [parameters[k] EXCEPT !.int = TRUE]
        ELSE parameters[k]]

json_dumps(parameters) ==
    LET keys == Items(parameters, InsertionKeys)
        item(k) == <<"\"", k, "\"", ": ">>
                   \o (IF parameters[k].int THEN parameters[k].text
                       ELSE <<"\"">> \o parameters[k].text \o <<"\"">>)
    IN <<"{">> \o Join([i \in 1..Len(keys) |-> item(keys[i])], ", ") \o <<"}">>

prepare_payload(method, parameters) ==
    IF method = "GET"
    THEN LET keys == Items(parameters, SortedKeys)
         IN Join([i \in 1..Len(keys) |-> <<keys[i], "=">> \o parameters[keys[i]].text], "&")
    ELSE json_dumps(cast_values(parameters))

\* ------------------------------------------------------ REST client: sign
\* HMAC-SHA256 hexdigest, taken as injective in key and message.
generate_signature(secret_, param_str) == <<"hmac_sha256", secret_, param_str>>

recv_window == 30000

ParamStrMutant(timestamp, key_, req_params) == key_ \o str(recv_window) \o req_params

\* param_str = str(timestamp) + self.key + str(recv_window) + req_params
ParamStr(timestamp, key_, req_params) ==
    str(timestamp) \o key_ \o str(recv_window) \o req_params

\* `if request.params: ... elif request.data: ...`: the object sign reads, 0 for none
ParametersRef(request, objects) ==
    IF request.params # 0 /\ DOMAIN objects[request.params] # {} THEN request.params
    ELSE IF request.data # 0 /\ DOMAIN objects[request.data] # {} THEN request.data
    ELSE 0

\* BybitRestApi.sign: the request as it leaves, from the dict as it is now
sign(request, objects, now, offset, key_, secret_) ==
    LET ref == ParametersRef(request, objects)
        parameters == IF ref = 0 THEN EmptyDict ELSE objects[ref]
        req_params == prepare_payload(request.method, parameters)
        timestamp == LocalMillis(now) - offset
        signature == generate_signature(secret_, ParamStr(timestamp, key_, req_params))
    IN [method |-> request.method,
        path |-> request.path,
        parameters |-> IF request.method = "GET" THEN parameters ELSE cast_values(parameters),
        body |-> IF request.method # "GET" THEN req_params ELSE <<>>,
        timestamp |-> timestamp,
        headers |-> [X_BAPI_API_KEY |-> key_,
                     X_BAPI_SIGN |-> signature,
                     X_BAPI_SIGN_TYPE |-> <<"2">>,
                     X_BAPI_TIMESTAMP |-> str(timestamp),
                     X_BAPI_RECV_WINDOW |-> str(recv_window)]]

\* ------------------------------------------- REST client: queue and worker
\* add_request: the Request keeps the dict it was given, not a copy of it.
Request(method, path, params, data) ==
    [method |-> method, path |-> path, params |-> params, data |-> data]

Store == [heap |-> heap, queue |-> rest_queue]

\* a new dict object
New(st, dict) == [st EXCEPT !.heap = Append(@, dict)]

\* the object created last
Last(st) == Len(st.heap)

add_request(st, method, path, params, data) ==
    [st EXCEPT !.queue = Append(@, Request(method, path, params, data))]

\* The key explored begins with a digit, so that it runs on from str(timestamp).
Keys == {<<"9", "k">>}
Secrets == {<<"s">>}

\* BybitRestApi.connect: stores the credentials, starts the client, query_time()
rest_connect(key_, secret_) ==
    /\ key = <<>>
    /\ key' = key_
    /\ secret' = secret_
    /\ rest_queue' = add_request(Store, "GET", "/v5/market/time", 0, 0).queue
    /\ raised' = ""
    /\ UNCHANGED <<symbol_category_map, restVars, pubVars, privVars, mdVars, ctlVars,
                   time_offset, heap, signed, query_call, last_callback, histVars, idVars,
                   order_query>>

\* The client's worker, which connect() has started, takes the oldest
\* request, has sign() complete it and sends it. For other methods than GET,
\* cast_values has rewritten the dict.
rest_send ==
    /\ key # <<>>
    /\ rest_queue # <<>>
    /\ LET request == Head(rest_queue)
           ref == ParametersRef(request, heap)
       IN /\ signed' = Append(signed, sign(request, heap, clock, time_offset, key, secret))
          /\ heap' = IF request.method # "GET" /\ ref # 0
                     THEN [heap EXCEPT ![ref] = cast_values(@)]
                     ELSE heap
    /\ rest_queue' = Tail(rest_queue)
    /\ UNCHANGED <<symbol_category_map, restVars, raised, pubVars, privVars, mdVars, ctlVars,
                   time_offset, query_call, key, secret, last_callback, histVars, idVars,
                   order_query>>

\* ----------------------------------------------------------- cancel_order
MaxCancels == 2     \* cancel_order calls explored

Cancels(requests_) == SelectSeq(requests_, LAMBDA r : r.path = "/v5/order/cancel")

DashCountMutant(orderid) == count(orderid, "-") + 2

\* dash_count = req.orderid.count("-")
DashCount(orderid) == count(orderid, "-")

\* BybitRestApi.cancel_order
cancel_order(symbol, orderid) ==
    /\ Len(Cancels(rest_queue)) + Len(Cancels(signed)) < MaxCancels
    /\ LET base == [category |-> StrValue(Token(CategoryOf(symbol_category_map, symbol))),
                    symbol |-> StrValue(Token(symbol))]
           data == IF DashCount(orderid) = 4
                   THEN base @@ ("orderId" :> StrValue(orderid))
                   ELSE base @@ ("orderLinkId" :> StrValue(orderid))
           st == New(Store, data)
       IN /\ heap' = st.heap
          /\ rest_queue' = add_request(st, "POST", "/v5/order/cancel", 0, Last(st)).queue
    /\ raised' = ""
    /\ UNCHANGED <<symbol_category_map, restVars, pubVars, privVars, mdVars, ctlVars,
                   time_offset, signed, query_call, key, secret, last_callback, histVars,
                   idVars, order_query>>

\* ------------------------------------------- the queries of on_query_time
\* on_query_time's four calls run in turn on the thread of the callback; the
\* client's worker sends queued requests meanwhile. query_call.pc counts the
\* steps: 1 query_contract, 2..5 query_order, 6 query_account, 7..9
\* query_position, 10 done.
RECURSIVE AddAll(_, _, _)
\* one add_request("GET", path, params=params) per dict, each dict a new object
AddAll(st, path, dicts) ==
    IF dicts = <<>> THEN st
    ELSE LET s1 == New(st, Head(dicts))
         IN AddAll(add_request(s1, "GET", path, Last(s1), 0), path, Tail(dicts))

Category(category) == [category |-> StrValue(<<category>>)]

LinearCoins == <<"USDT", "USDC">>

\* params["settleCoin"] = coin
SetCoin(params, coin) == ("settleCoin" :> StrValue(<<coin>>)) @@ params

\* `for coin in ["USDT", "USDC"]`, first pass: the dict of this category is
\* created, given its coin and handed to add_request.
FirstCoin(st, path, params) ==
    LET s1 == New(st, SetCoin(params, LinearCoins[1]))
    IN add_request(s1, "GET", path, Last(s1), 0)

\* second pass: the coin is assigned in the same dict, which is handed to
\* add_request again.
SecondCoin(st, path, ref) ==
    add_request([st EXCEPT !.heap[ref] = SetCoin(@, LinearCoins[2])], "GET", path, ref, 0)

QueryVarsUnchanged ==
    UNCHANGED <<symbol_category_map, restVars, pubVars, privVars, mdVars, ctlVars, time_offset,
                signed, key, secret, last_callback, histVars, idVars, order_query>>

\* BybitRestApi.query_contract
query_contract ==
    /\ query_call.pc = 1
    /\ LET st == AddAll(Store, "/v5/market/instruments-info",
                        [i \in 1..4 |->
                            Category(<<"spot", "linear", "inverse", "option">>[i])
                               @@ ("limit" :> IntValue(1000))])
       IN heap' = st.heap /\ rest_queue' = st.queue
    /\ query_call' = [pc |-> 2, params |-> 0]
    /\ raised' = ""
    /\ QueryVarsUnchanged

\* BybitRestApi.query_order, one add_request at a time around the linear loop
query_order ==
    /\ query_call.pc \in 2..5
    /\ LET path == "/v5/order/realtime"
           st == CASE query_call.pc = 2 -> AddAll(Store, path, <<Category("spot")>>)
                   [] query_call.pc = 3 -> FirstCoin(Store, path, Category("linear"))
                   [] query_call.pc = 4 -> SecondCoin(Store, path, query_call.params)
                   [] query_call.pc = 5 ->
                         AddAll(Store, path, <<Category("inverse"), Category("option")>>)
       IN /\ heap' = st.heap
          /\ rest_queue' = st.queue
          /\ query_call' = [pc |-> query_call.pc + 1,
                            params |-> IF query_call.pc = 3 THEN Last(st) ELSE 0]
    /\ raised' = ""
    /\ QueryVarsUnchanged

\* BybitRestApi.query_account
query_account ==
    /\ query_call.pc = 6
    /\ LET st == AddAll(Store, "/v5/account/wallet-balance",
                        <<[accountType |-> StrValue(<<"UNIFIED">>)],
                          [accountType |-> StrValue(<<"CONTRACT">>)]>>)
       IN heap' = st.heap /\ rest_queue' = st.queue
    /\ query_call' = [pc |-> 7, params |-> 0]
    /\ raised' = ""
    /\ QueryVarsUnchanged

\* BybitRestApi.query_position, one add_request at a time around the linear loop
query_position ==
    /\ query_call.pc \in 7..9
    /\ LET path == "/v5/position/list"
           params(category) == Category(category) @@ ("limit" :> IntValue(200))
           st == CASE query_call.pc = 7 -> FirstCoin(Store, path, params("linear"))
                   [] query_call.pc = 8 -> SecondCoin(Store, path, query_call.params)
                   [] query_call.pc = 9 ->
                         AddAll(Store, path, <<params("inverse"), params("option")>>)
       IN /\ heap' = st.heap
          /\ rest_queue' = st.queue
          /\ query_call' = [pc |-> query_call.pc + 1,
                            params |-> IF query_call.pc = 7 THEN Last(st) ELSE 0]
    /\ raised' = ""
    /\ QueryVarsUnchanged

\* ------------------------------------------------------------------- init
Init ==
    /\ symbol_category_map = [s \in Symbols |-> ""]
    /\ order_count = 0
    /\ requests = <<>>
    /\ order_status = <<>>
    /\ exch_status = [n \in 1..MaxOrders |-> ""]
    /\ trace = <<>>
    /\ raised = ""
    /\ clients = {}
    /\ is_connected = [c \in Categories |-> FALSE]
    /\ conn = [c \in Categories |-> 0]
    /\ pub_callbacks = {}
    /\ subscribed = <<>>
    /\ ticks = [s \in Symbols |-> NoTick]
    /\ tick_out = <<>>
    /\ pub_frames = 0
    /\ exch_book = [s \in Symbols |-> NoBook]
    /\ deferred = {}
    /\ pub_sent = <<>>
    /\ priv_link = FALSE
    /\ priv_conn = 0
    /\ priv_auth = <<>>
    /\ priv_callbacks = {}
    /\ priv_sent = <<>>
    /\ last_callback = ""
    /\ hist = IdleHistory
    /\ callers = [t \in Threads |-> IdleCaller]
    /\ clock = 0
    /\ issued = <<>>
    /\ order_query = NoQuery
    /\ sub_call = NoCall
    /\ closed = FALSE
    /\ time_offset = 0
    /\ heap = <<>>
    /\ rest_queue = <<>>
    /\ signed = <<>>
    /\ query_call = NoQueries
    /\ key = <<>>
    /\ secret = <<>>

\* ------------------------------------------- specification: order lifecycle
Next ==
    \/ \E s \in Symbols, t \in OrderTypes : send_order(s, t)
    \/ \E n \in 1..MaxOrders, v \in {"accepted", "rejected"} : ExchangeReceive(n, v)
    \/ \E n \in 1..MaxOrders, r \in RetCodes : on_send_order(n, r)
    \/ \E n \in 1..MaxOrders : on_send_order_failed(n)
    \/ \E n \in 1..MaxOrders : on_send_order_error(n)
    \/ \E c \in Categories : on_query_contract(c, {s \in Symbols : ExchangeCategory(s) = c})
    \/ \E data \in Frames(exch_status) : on_order(data)

Spec == Init /\ [][Next]_vars

\* ------------------------------------------ specification: private session
NextPrivate ==
    \/ private_on_connected
    \/ private_on_disconnected
    \/ \E op \in {"auth", "pong"}, success \in {"true", "false", "absent"} :
          private_on_packet_op(op, success)
    \/ \E topic \in PrivateFrameTopics, data \in Frames(exch_status) \cup {<<>>} :
          private_on_packet_topic(topic, data)

SpecPrivate == Init /\ [][NextPrivate]_vars

\* ------------------------------------------ specification: public sessions
NextPublic ==
    \/ \E c \in Categories, list \in SUBSET Symbols : on_query_contract(c, list)
    \/ \E s \in Symbols : public_subscribe(s)
    \/ \E c \in Categories : public_on_connected(c)
    \/ \E c \in Categories : public_on_disconnected(c)
    \/ \E c \in Categories, packet \in OtherFrames : public_on_packet(c, packet)

SpecPublic == Init /\ [][NextPublic]_vars

\* The transport connects a started client, and reconnects one that lost its
\* connection: a pending on_connected eventually fires.
FairSpecPublic == SpecPublic /\ \A c \in Categories : WF_vars(public_on_connected(c))

\* ---------------------------------------------- specification: market data
\* The instruments whose frames are explored, on the session of their category.
MarketSymbols == {"BTCUSDT"}

MarketFrames ==
    TickerFrames(MarketSymbols) \cup SnapshotFrames(MarketSymbols) \cup DeltaFrames(MarketSymbols)

NextMarket ==
    \/ on_query_contract("linear", {s \in Symbols : ExchangeCategory(s) = "linear"})
    \/ \E s \in MarketSymbols : public_subscribe(s)
    \/ public_on_connected("linear")
    \/ \E packet \in MarketFrames :
          ExchangeSends("linear", packet) /\ public_on_packet("linear", packet)

SpecMarket == Init /\ [][NextMarket]_vars

\* ------------------------------------------- specification: query_history
NextHistory ==
    \/ \E symbol \in Symbols, start \in StartTimes, interval \in Intervals :
          query_history(symbol, start, interval)
    \/ /\ hist.pc = "request"
       /\ \E resp \in Responses(hist.params) : query_history_response(resp)

SpecHistory == Init /\ [][NextHistory]_vars

\* ------------------------------- specification: order ids, by two threads
NextIds ==
    \/ ClockTick
    \/ \E t \in Threads : new_orderid_prefix(t)
    \/ \E t \in Threads : order_count_load(t)
    \/ \E t \in Threads : order_count_store(t)
    \/ \E t \in Threads : new_orderid_suffix(t)

SpecIds == Init /\ [][NextIds]_vars

\* ------------------- specification: order lifecycle with the startup query
NextOpenOrders ==
    \/ Next
    \/ \E server_time \in {0} : on_query_time(server_time)
    \/ ExchangeAnswersOrders
    \/ \E r \in RetCodes : on_query_order(r)

SpecOpenOrders == Init /\ [][NextOpenOrders]_vars

\* ------------- specification: order lifecycle with pushes of foreign orders
NextForeign ==
    \/ Next
    \/ \E data \in ForeignFrames : on_order_foreign(data)

SpecForeign == Init /\ [][NextForeign]_vars

\* --------------- specification: subscribe racing with the session's thread
RaceSymbols == {"BTCUSDT", "ETHUSDT"}

RaceFrames ==
    {Packet(TickerTopic(s), 1000, "snapshot", [field \in {"lastPrice"} |-> "100"],
            "", <<>>, <<>>) : s \in RaceSymbols}

NextSubscribe ==
    \/ on_query_contract("linear", {s \in Symbols : ExchangeCategory(s) = "linear"})
    \/ \E s \in RaceSymbols : subscribe_begin(s)
    \/ subscribe_send
    \/ public_on_connected("linear")
    \/ public_on_disconnected("linear")
    \/ \E packet \in RaceFrames :
          ExchangeSends("linear", packet) /\ public_on_packet("linear", packet)

SpecSubscribe == Init /\ [][NextSubscribe]_vars

\* ------------------------- specification: the sessions before and after close
NextClose ==
    \/ close
    \/ NextPrivate
    \/ on_query_contract("linear", {s \in Symbols : ExchangeCategory(s) = "linear"})
    \/ public_subscribe("BTCUSDT")
    \/ public_on_connected("linear")
    \/ public_on_disconnected("linear")

SpecClose == Init /\ [][NextClose]_vars

\* ----------------------------- specification: cancelling, signing, sending
\* The ids a cancel request can name: those new_orderid has returned and
\* those the exchange assigns.
CancelIds == {OrderIdText(issued[i].orderid) : i \in 1..Len(issued)} \cup {ExchIdText(1)}

\* The gateway is connected before it trades, and one thread makes the
\* gateway's calls, one at a time; the clock and the client's worker run beside it.
NextCancel ==
    \/ ClockTick
    \/ \E key_ \in Keys, secret_ \in Secrets : rest_connect(key_, secret_)
    \/ key # <<>> /\ new_orderid_prefix("event")
    \/ order_count_load("event")
    \/ order_count_store("event")
    \/ new_orderid_suffix("event")
    \/ /\ key # <<>>
       /\ callers["event"].pc = "idle"
       /\ \E orderid \in CancelIds : cancel_order("BTCUSDT", orderid)
    \/ rest_send

SpecCancel == Init /\ [][NextCancel]_vars

\* ------------------------------ specification: the queries after connect
ServerTimes == {0, 500}

NextQuery ==
    \/ \E key_ \in Keys, secret_ \in Secrets : rest_connect(key_, secret_)
    \/ rest_send
    \/ /\ \E i \in 1..Len(signed) : signed[i].path = "/v5/market/time"
       /\ \E server_time \in ServerTimes : on_query_time(server_time)
    \/ query_contract
    \/ query_order
    \/ query_account
    \/ query_position

SpecQuery == Init /\ [][NextQuery]_vars

\* ================================================================ claims
IsOrderEvent(e) == e.kind = "order"

Terminal == {"REJECTED", "CANCELLED"}

RestCallbacks == {"on_send_order", "on_send_order_failed", "on_send_order_error"}

\* C1: terminal statuses are absorbing in the emitted order stream: once an
\* order event with status Rejected or Cancelled has been emitted for a local
\* order id, no later order event for that id carries a non-terminal status.
C1_TerminalAbsorbing ==
    \A i, j \in 1..Len(trace) :
        (/\ i < j
         /\ IsOrderEvent(trace[i]) /\ IsOrderEvent(trace[j])
         /\ trace[i].orderid \in 1..order_count
         /\ trace[i].orderid = trace[j].orderid
         /\ trace[i].status \in Terminal)
        => trace[j].status \in Terminal

\* C2: correlation identity: the order event emitted for an update that names
\* an order of this session by its exchange id carries the local id the order
\* was submitted under, whether or not the update also carries the local id.
C2_CorrelationIdentity ==
    \A i \in 1..Len(trace), n \in 1..order_count :
        (IsOrderEvent(trace[i]) /\ trace[i].by = "on_order" /\ trace[i].orderId = ExchId(n))
        => trace[i].orderid = n

\* C3: for every send_order call the PendingSubmit event of the new local id
\* is emitted before the create-order request is enqueued, and it is the first
\* order event ever emitted for that id.
C3_SubmittingFirst ==
    /\ \A j \in 1..Len(trace) :
          trace[j].kind = "request" =>
             \E i \in 1..(j - 1) :
                /\ IsOrderEvent(trace[i]) /\ trace[i].orderid = trace[j].orderid
                /\ trace[i].status = SUBMITTING /\ trace[i].by = "send_order"
    /\ \A n \in 1..order_count :
          LET idx == {i \in 1..Len(trace) : IsOrderEvent(trace[i]) /\ trace[i].orderid = n}
          IN /\ idx # {}
             /\ \A i \in idx :
                   (\A k \in idx : i <= k) =>
                      trace[i].status = SUBMITTING /\ trace[i].by = "send_order"

\* C3 witness: an order whose request was enqueued and which later got both a
\* Rejected event from a REST callback and a push-derived event.
C3_Witness ==
    \E n \in 1..order_count :
        /\ \E j \in 1..Len(trace) : trace[j].kind = "request" /\ trace[j].orderid = n
        /\ \E j \in 1..Len(trace) :
              IsOrderEvent(trace[j]) /\ trace[j].orderid = n /\ trace[j].by \in RestCallbacks
        /\ \E j \in 1..Len(trace) :
              IsOrderEvent(trace[j]) /\ trace[j].orderid = n /\ trace[j].by = "on_order"

\* The callback that handles each failure outcome of a create-order request.
CallbackOf(outcome) ==
    CASE outcome = "retcode" -> "on_send_order"
      [] outcome = "failed" -> "on_send_order_failed"
      [] outcome = "error" -> "on_send_order_error"
      [] OTHER -> ""

\* C4: each failure outcome of the create-order request (nonzero retCode, HTTP
\* failure, transport exception) sets the request's order to Rejected and
\* emits exactly one Rejected event for its local id, from the callback of
\* that outcome; a response with retCode zero emits no event and leaves the
\* order's status as it was.
C4_RestOutcome ==
    \A n \in DOMAIN requests :
        LET cb == {i \in 1..Len(trace) :
                      IsOrderEvent(trace[i]) /\ trace[i].orderid = n
                      /\ trace[i].by \in RestCallbacks}
        IN /\ requests[n].outcome \in {"retcode", "failed", "error"} =>
                /\ order_status[n] = "REJECTED"
                /\ Cardinality(cb) = 1
                /\ \A i \in cb : trace[i].status = "REJECTED"
                                 /\ trace[i].by = CallbackOf(requests[n].outcome)
           /\ requests[n].outcome = "ok" => cb = {} /\ order_status[n] = SUBMITTING

\* C4 witness: one request answered with retCode zero and another one failed.
C4_Witness ==
    \E n, m \in DOMAIN requests :
        /\ requests[n].outcome = "ok"
        /\ requests[m].outcome \in {"retcode", "failed", "error"}

\* C5: local validation precedes the network: a send_order whose symbol has no
\* category or whose order type is unsupported enqueues no create-order
\* request, and the order is rejected locally instead of staying PendingSubmit.
C5_LocalValidation ==
    /\ \A i \in 1..Len(trace) :
          trace[i].kind = "request" =>
             trace[i].category # "" /\ trace[i].type \in DOMAIN ORDER_TYPE_VT2BYBIT
    /\ \A i \in 1..Len(trace) :
          (/\ IsOrderEvent(trace[i]) /\ trace[i].by = "send_order"
           /\ trace[i].status = SUBMITTING
           /\ trace[i].type \notin DOMAIN ORDER_TYPE_VT2BYBIT)
          => \E j \in (i + 1)..Len(trace) :
                /\ IsOrderEvent(trace[j]) /\ trace[j].orderid = trace[i].orderid
                /\ trace[j].status = "REJECTED" /\ trace[j].by = "send_order"

Subscribed == {subscribed[i] : i \in 1..Len(subscribed)}

\* A ticker subscribe and an orderbook subscribe for the symbol have been sent.
WireSubscribed(symbol) ==
    /\ \E i \in 1..Len(pub_sent) : pub_sent[i].topic = TickerTopic(symbol)
    /\ \E i \in 1..Len(pub_sent) :
          pub_sent[i].topic.kind = "orderbook" /\ pub_sent[i].topic.symbol = symbol

\* C6: a subscription deferred because the symbol's category was unknown at
\* subscribe time materializes: once the category is known and the session of
\* that category is connected, the symbol's ticker and orderbook subscribes
\* are eventually sent, without another subscribe call.
C6_DeferredMaterializes ==
    \A s \in Symbols :
        (/\ s \in deferred
         /\ CategoryOf(symbol_category_map, s) \in clients
         /\ is_connected[CategoryOf(symbol_category_map, s)])
        ~> WireSubscribed(s)

\* C7: every time on_connected(category) fires, one ticker subscribe and one
\* orderbook subscribe are sent on that category's client, on the new
\* connection, for exactly the registered symbols whose category in the symbol
\* directory equals that category, and for no other symbol.
C7_ReplayOnConnect ==
    [][\A c \in Categories :
          conn'[c] # conn[c] =>
             LET new == SubSeq(pub_sent', Len(pub_sent) + 1, Len(pub_sent'))
                 want == {s \in Subscribed : CategoryOf(symbol_category_map, s) = c}
             IN /\ \A k \in 1..Len(new) :
                      /\ new[k].category = c
                      /\ new[k].conn = conn'[c]
                      /\ new[k].topic.symbol \in want
                /\ \A s \in want :
                      /\ Cardinality({k \in 1..Len(new) : new[k].topic = TickerTopic(s)}) = 1
                      /\ Cardinality({k \in 1..Len(new) :
                                         /\ new[k].topic.kind = "orderbook"
                                         /\ new[k].topic.symbol = s}) = 1
                /\ Len(new) = 2 * Cardinality(want)]_vars

\* C7 witness: a session on its second connection has replayed on it, while a
\* registered symbol of another or of unknown category exists.
C7_Witness ==
    \E c \in Categories :
        /\ conn[c] = 2
        /\ \E i \in 1..Len(pub_sent) :
              /\ pub_sent[i].category = c /\ pub_sent[i].conn = 2
              /\ pub_sent[i].by = "on_connected"
        /\ \E s \in Subscribed : CategoryOf(symbol_category_map, s) # c

PrivateTopicSet == {PrivateTopics[i] : i \in 1..Len(PrivateTopics)}

SentOn(e, op, topic) ==
    {i \in 1..Len(priv_sent) :
        priv_sent[i].conn = e /\ priv_sent[i].op = op /\ priv_sent[i].topic = topic}

\* C8: on the private session no subscribe packet is sent on a connection
\* before an auth response with success=true was received on it; on_connected
\* sends only the auth packet, and the four topic subscriptions are sent by
\* on_login only, each exactly once per successful auth response.
C8_SubscribeAfterAuth ==
    /\ \A i \in 1..Len(priv_sent) :
          /\ priv_sent[i].op = "subscribe" =>
                priv_auth[priv_sent[i].conn] = "ok" /\ priv_sent[i].by = "on_login"
          /\ priv_sent[i].by = "on_connected" => priv_sent[i].op = "auth"
    /\ \A e \in 1..priv_conn :
          /\ Cardinality(SentOn(e, "auth", "")) = 1
          /\ \A t \in PrivateTopicSet :
                Cardinality(SentOn(e, "subscribe", t)) = IF priv_auth[e] = "ok" THEN 1 ELSE 0

\* C8 witness: one connection subscribed after its auth succeeded, and a later
\* connection still waits for its auth response.
C8_Witness ==
    /\ priv_conn = 2
    /\ priv_auth[1] = "ok" /\ SentOn(1, "subscribe", "wallet") # {}
    /\ priv_auth[2] = "pending"

\* C9: when the auth response reports failure (success false or absent) no
\* private topic subscription is sent and no topic handler is registered on
\* that connection: handling the response changes neither the packets sent
\* nor the handler table, and no subscribe packet is ever sent on a connection
\* whose auth failed.
C9_AuthFailureHalts ==
    /\ [](\A e \in 1..priv_conn :
             priv_auth[e] = "fail" =>
                \A i \in 1..Len(priv_sent) :
                   priv_sent[i].conn = e => priv_sent[i].op # "subscribe")
    /\ [][\A e \in DOMAIN priv_auth :
             (priv_auth[e] = "pending" /\ priv_auth'[e] = "fail") =>
                priv_sent' = priv_sent /\ priv_callbacks' = priv_callbacks]_vars

\* C9 witness: the second connection's auth failed after the first one's
\* succeeded.
C9_Witness ==
    /\ priv_conn = 2
    /\ priv_auth[1] = "ok"
    /\ priv_auth[2] = "fail"

\* C10: a frame whose topic has no registered handler is dropped without an
\* exception leaving on_packet.
C10_UnknownTopicDropped == raised # "KeyError: callbacks"

\* The ticker frames handled so far for the symbol that carried the field.
TickerFramesWith(symbol, field) ==
    {i \in 1..Len(tick_out) : /\ tick_out[i].by = "on_ticker"
                              /\ tick_out[i].packet.topic.symbol = symbol
                              /\ field \in DOMAIN tick_out[i].packet.data}

Latest(S) == CHOOSE i \in S : \A j \in S : j <= i

\* C11: after any sequence of ticker frames for a subscribed symbol, each of
\* last_price, high_price, low_price, volume, turnover, open_interest holds the
\* value of the most recent frame that carried its exchange field, or its
\* initial value 0 when no frame did; fields a frame does not carry stay as
\* they were, and a field name outside the mapping table changes nothing and
\* raises nothing.
C11_TickerPartialUpdate ==
    /\ raised = ""
    /\ \A s \in Symbols : ticks[s] # NoTick =>
          \A field \in DOMAIN TICK_FIELD_BYBIT2VT :
             LET with == TickerFramesWith(s, field)
             IN ticks[s][TICK_FIELD_BYBIT2VT[field]] =
                   IF with = {} THEN 0
                   ELSE Float(tick_out[Latest(with)].packet.data[field])

\* {lastPrice: "100"} and then a frame with volume24h and the unlisted
\* markPrice but no lastPrice: last price 100 and volume 5 are both reported.
C11_Witness ==
    /\ Len(tick_out) = 2
    /\ tick_out[1].by = "on_ticker" /\ DOMAIN tick_out[1].packet.data = {"lastPrice"}
    /\ tick_out[2].by = "on_ticker"
    /\ DOMAIN tick_out[2].packet.data = {"volume24h", "markPrice"}
    /\ ticks["BTCUSDT"].last_price = 100
    /\ ticks["BTCUSDT"].volume = 5

\* The tick records consumers hold, as they read them now.
EmittedTicks == {Emitted(tick_out[i].tick, ticks) : i \in 1..Len(tick_out)}

\* A level is reported when it shows a price.
WellFormedSide(price, volume, better(_, _)) ==
    /\ \A k \in 1..Levels : price[k] # 0 => volume[k] > 0
    /\ \A k, l \in 1..Levels : (k < l /\ price[k] # 0 /\ price[l] # 0) => better(price[k], price[l])

Higher(p, q) == p > q

Lower(p, q) == p < q

\* C12: whatever snapshot and delta frames a symbol's book gets, no emitted
\* tick reports a price level of size <= 0, reported bid prices descend
\* strictly from level 1 and reported ask prices ascend strictly.
C12_LevelsWellFormed ==
    \A t \in EmittedTicks :
       /\ WellFormedSide(t.bid_price, t.bid_volume, Higher)
       /\ WellFormedSide(t.ask_price, t.ask_volume, Lower)

\* The frame the step handed to on_depth, if the step is one.
DepthStep(type) ==
    /\ Len(tick_out') = Len(tick_out) + 1
    /\ tick_out'[Len(tick_out')].by = "on_depth"
    /\ tick_out'[Len(tick_out')].packet.type = type

LevelsOf(tick) == <<tick.bid_price, tick.bid_volume, tick.ask_price, tick.ask_volume>>

\* Every entry of the frame removes a price the exchange's book does not hold.
DeletesAbsent(packet, book) ==
    /\ Len(packet.b) + Len(packet.a) > 0
    /\ \A i \in 1..Len(packet.b) : packet.b[i][2] = "0" /\ packet.b[i][1] \notin book.b
    /\ \A i \in 1..Len(packet.a) : packet.a[i][2] = "0" /\ packet.a[i][1] \notin book.a

\* C13: a delta that deletes a price the book does not hold changes nothing:
\* the reported bid and ask levels after the frame are those before it, and
\* nothing is raised.
C13_DeleteAbsentNoOp ==
    [][(DepthStep("delta") /\ LET packet == tick_out'[Len(tick_out')].packet
                              IN DeletesAbsent(packet, exch_book[packet.s]))
         => LET symbol == tick_out'[Len(tick_out')].packet.s
            IN raised' = "" /\ LevelsOf(ticks'[symbol]) = LevelsOf(ticks[symbol])]_vars

\* The levels a snapshot side shows: its entries best first, then empty levels.
SnapshotSide(side_data, column) ==
    [k \in 1..Levels |-> IF k <= Len(side_data) THEN Float(side_data[k][column]) ELSE 0]

\* C14: a snapshot replaces both sides: the tick emitted for it reports
\* exactly the best levels of the snapshot on each side, and the levels past
\* the end of a side shorter than 5 (or empty) are empty; nothing is raised.
C14_SnapshotReplaces ==
    \A i \in 1..Len(tick_out) :
       (tick_out[i].by = "on_depth" /\ tick_out[i].packet.type = "snapshot") =>
          LET t == Emitted(tick_out[i].tick, ticks)
              packet == tick_out[i].packet
          IN /\ t.bid_price = SnapshotSide(packet.b, 1)
             /\ t.bid_volume = SnapshotSide(packet.b, 2)
             /\ t.ask_price = SnapshotSide(packet.a, 1)
             /\ t.ask_volume = SnapshotSide(packet.a, 2)

C16_EmittedDetached ==
    [][\A i \in 1..Len(tick_out) :
          Emitted(tick_out'[i].tick, ticks') = Emitted(tick_out[i].tick, ticks)]_vars

\* A tick emitted by on_ticker, then an orderbook frame of the same symbol
\* that moved the instance on: the emitted record still shows no bid.
C16_Witness ==
    /\ Len(tick_out) = 2
    /\ tick_out[1].by = "on_ticker" /\ tick_out[2].by = "on_depth"
    /\ tick_out[1].tick.symbol = tick_out[2].tick.symbol
    /\ ticks[tick_out[1].tick.symbol].bid_price[1] = 100
    /\ Emitted(tick_out[1].tick, ticks).bid_price[1] = 0

\* The page ends the pagination: an HTTP error, an error code, no bars, or
\* fewer bars than the page size.
LastPage(resp) ==
    \/ resp.status_code \div 100 # 2
    \/ resp.ret_code # 0
    \/ Len(resp.result) < HistoryCount

\* C17: pagination terminates: query_history stops at the first page with a
\* non-2xx status, a nonzero result code, no bars or fewer than 200 bars, and
\* returns every bar received; it asks for a further page only after a page
\* of 200 bars, from the last bar's time plus one interval.
C17_PaginationTerminates ==
    /\ hist.pc # "raised"
    /\ hist.pc = "returned" =>
          LastPage(hist.resp) /\ Len(hist.history) = hist.received
    /\ (hist.pc = "request" /\ hist.resp # NoResponse) =>
          /\ ~LastPage(hist.resp)
          /\ hist.start_time = hist.resp.result[Len(hist.resp.result)].open_time
                                  + TIMEDELTA_MAP[hist.interval]

\* C18: when the server answers every page with consecutive bars from the
\* requested start, one interval apart, the returned list is strictly
\* increasing in time, holds no bar twice and skips no interval, within a
\* page and across pages.
C18_BarsConsecutive ==
    (hist.pc \notin {"idle", "request"} /\ hist.received > 0) =>
       /\ hist.pc = "returned"
       /\ Len(hist.history) = hist.received
       /\ \A i \in 1..Len(hist.history) :
             hist.history[i].datetime = hist.start + (i - 1) * TIMEDELTA_MAP[hist.interval]

\* C19: every local order id is unique within the session, for any sequence
\* or interleaving of calls, concurrent callers included, and the order
\* counter goes up by exactly one per call.
C19_OrderIdUnique ==
    /\ \A i, j \in 1..Len(issued) : i # j => issued[i].orderid # issued[j].orderid
    /\ (\A t \in Threads : callers[t].pc = "idle") => order_count = Len(issued)

\* The forward order of the statuses of a live order; 0 for the others.
Rank(status) ==
    CASE status = "SUBMITTING" -> 1
      [] status = "NOTTRADED" -> 2
      [] status = "PARTTRADED" -> 3
      [] status = "ALLTRADED" -> 4
      [] OTHER -> 0

\* C20: order status moves only forward: for every order, the statuses of its
\* emitted events never go back in SUBMITTING < NOTTRADED < PARTTRADED <
\* ALLTRADED, whatever order push frames and REST callbacks arrive in.
C20_StatusForward ==
    \A i, j \in 1..Len(trace) :
       (/\ i < j
        /\ IsOrderEvent(trace[i]) /\ IsOrderEvent(trace[j])
        /\ trace[i].orderid = trace[j].orderid /\ trace[i].orderid # NoLinkId
        /\ Rank(trace[i].status) > 0 /\ Rank(trace[j].status) > 0)
       => Rank(trace[i].status) <= Rank(trace[j].status)

\* The order events emitted for the local id, in the order of emission.
EventsOf(orderid) == SelectSeq(trace, LAMBDA e : IsOrderEvent(e) /\ e.orderid = orderid)

\* The callbacks of a response to the create-order request.
FromResponse(e) == e.by \in {"on_send_order", "on_send_order_failed"}

FromPush(e) == e.by = "on_order"

\* The same events as they are emitted when the response callback runs before
\* the push handler: every handler emits what its own input says.
ResponseFirst(events) ==
    SelectSeq(events, LAMBDA e : ~FromResponse(e) /\ ~FromPush(e))
    \o SelectSeq(events, FromResponse) \o SelectSeq(events, FromPush)

\* C21: the final status of an order does not depend on which transport is
\* handled first: for the same response to the create-order request and the
\* same pushes, the last emitted status is the same whether the response
\* callback runs before or after the push handler.
C21_TransportOrderIndependent ==
    \A n \in 1..MaxOrders :
       LET events == EventsOf(n)
       IN events # <<>> =>
             events[Len(events)].status =
                ResponseFirst(events)[Len(events)].status

\* C22: a push about an order that carries neither a local id nor an exchange
\* id this session knows (an order it never sent nor loaded from the
\* open-orders query) is dropped: no order event is emitted for it.
C22_UnknownOrderDropped ==
    \A i \in 1..Len(trace) : IsOrderEvent(trace[i]) => trace[i].orderId # ForeignExchId

\* C23: the subscription registry is append-only and subscribe is idempotent
\* per symbol: no step removes or replaces a registry entry, and a subscribe
\* call for a symbol already in the registry changes neither the registry nor
\* the symbol's tick and its accumulated fields, and sends no packet.
C23_RegistryAppendOnly ==
    [][/\ \A i \in 1..Len(subscribed) :
             i <= Len(subscribed') /\ subscribed'[i] = subscribed[i]
       /\ \A s \in Subscribed :
             subscribe_begin(s) => UNCHANGED <<subscribed, ticks, pub_sent, pub_callbacks>>]_vars

\* A second subscribe for BTCUSDT returned at the registry check after a
\* ticker frame had set the tick's last price, which is still there.
C23_Witness ==
    /\ sub_call = Returned("BTCUSDT", "registered")
    /\ ticks["BTCUSDT"].last_price = 100
    /\ ticks["BTCUSDT"].datetime # DatetimeNow

\* The subscribe packets for the symbol's ticker and orderbook topics have
\* been sent on the current connection of the category's session.
SentOnCurrent(symbol, category) ==
    /\ \E i \in 1..Len(pub_sent) : /\ pub_sent[i].topic = TickerTopic(symbol)
                                   /\ pub_sent[i].conn = conn[category]
    /\ \E i \in 1..Len(pub_sent) : /\ pub_sent[i].topic.kind = "orderbook"
                                   /\ pub_sent[i].topic.symbol = symbol
                                   /\ pub_sent[i].conn = conn[category]

NoneLost ==
    \A s \in Subscribed \ deferred :
       LET category == CategoryOf(symbol_category_map, s)
       IN (is_connected[category] /\ sub_call.pc # "send") => SentOnCurrent(s, category)

\* C27: no subscription is lost to a connect race: for a symbol whose category
\* is known at subscribe, once the session is connected and subscribe and
\* on_connected have finished, its ticker and orderbook subscribe packets have
\* been sent on the current connection; and no subscribe packet is ever sent
\* on a client whose is_connected flag is false.
C27_NoLostSubscription ==
    [][/\ NoneLost'
       /\ \A i \in (Len(pub_sent) + 1)..Len(pub_sent') :
             is_connected'[pub_sent'[i].category]]_vars

\* C25: one orderbook depth per category: every orderbook subscribe packet of
\* a category, whether sent by subscribe on a connected session or by the
\* replay of on_connected, names the same depth.
C25_OneDepthPerCategory ==
    \A i, j \in 1..Len(pub_sent) :
       (/\ pub_sent[i].topic.kind = "orderbook"
        /\ pub_sent[j].topic.kind = "orderbook"
        /\ pub_sent[i].category = pub_sent[j].category)
       => pub_sent[i].topic.depth = pub_sent[j].topic.depth

\* C26: after close() the sessions do nothing more: no public session sends
\* (replays) subscriptions on a later connect, and the private session sends
\* neither an auth nor a subscribe packet.
C26_ClosedSessionsSilent ==
    [][closed => (pub_sent' = pub_sent /\ priv_sent' = priv_sent)]_vars

\* C24: signatures are bound to the timestamp: two sign() results for the same
\* method and parameters under the same credentials at different
\* offset-adjusted timestamps carry different X-BAPI-SIGN values (the keyed
\* hash taken as injective), and X-BAPI-TIMESTAMP is the very text that was
\* concatenated, in front of key, receive window and payload, into the
\* signed string.
C24_SignatureBoundToTimestamp ==
    /\ \A i, j \in 1..Len(signed) :
          (/\ signed[i].method = signed[j].method
           /\ signed[i].parameters = signed[j].parameters
           /\ signed[i].headers.X_BAPI_API_KEY = signed[j].headers.X_BAPI_API_KEY
           /\ signed[i].timestamp # signed[j].timestamp)
          => signed[i].headers.X_BAPI_SIGN # signed[j].headers.X_BAPI_SIGN
    /\ \A i \in 1..Len(signed) :
          signed[i].headers.X_BAPI_SIGN =
             generate_signature(secret,
                                signed[i].headers.X_BAPI_TIMESTAMP \o key \o str(recv_window)
                                   \o prepare_payload(signed[i].method, signed[i].parameters))

\* Two cancel requests with equal bodies were signed a second apart.
C24_Witness ==
    \E i, j \in 1..Len(signed) :
       /\ i < j
       /\ signed[i].method = "POST"
       /\ signed[i].body = signed[j].body
       /\ signed[i].parameters = signed[j].parameters
       /\ signed[i].timestamp # signed[j].timestamp

\* The dicts cancel_order has built.
CancelData == {heap[h] : h \in {n \in 1..Len(heap) : "symbol" \in DOMAIN heap[n]}}

CarriedId(data) ==
    IF "orderId" \in DOMAIN data THEN data["orderId"].text ELSE data["orderLinkId"].text

\* C28: cancel_order routes by id kind: a cancel request carries exactly one
\* of orderId and orderLinkId; an id that new_orderid returned is carried as
\* orderLinkId, never as orderId; an exchange-format id is carried as orderId.
C28_CancelRoutesByIdKind ==
    \A data \in CancelData :
       /\ ("orderId" \in DOMAIN data) # ("orderLinkId" \in DOMAIN data)
       /\ (\E i \in 1..Len(issued) : CarriedId(data) = OrderIdText(issued[i].orderid))
             => "orderLinkId" \in DOMAIN data
       /\ CarriedId(data) = ExchIdText(1) => "orderId" \in DOMAIN data

\* One cancel for an id of new_orderid and one for an exchange id are queued
\* or sent.
C28_Witness ==
    /\ \E data \in CancelData :
          /\ "orderLinkId" \in DOMAIN data
          /\ \E i \in 1..Len(issued) : data["orderLinkId"].text = OrderIdText(issued[i].orderid)
          /\ DashCount(data["orderLinkId"].text) = 2
    /\ \E data \in CancelData :
          "orderId" \in DOMAIN data /\ DashCount(data["orderId"].text) = 4

\* The linear-category requests of one endpoint in the order add_request took
\* them, each with its params as sent, or as they are now if still queued.
LinearParams(path) ==
    LET isLinear(parameters) == "settleCoin" \in DOMAIN parameters
        sent == SelectSeq(signed, LAMBDA r : r.path = path /\ isLinear(r.parameters))
        queued == SelectSeq(rest_queue,
                            LAMBDA r : r.path = path /\ r.params # 0
                                       /\ isLinear(heap[r.params]))
    IN [i \in 1..Len(sent) |-> sent[i].parameters]
       \o [i \in 1..Len(queued) |-> heap[queued[i].params]]

\* C29: for the linear category, query_order and query_position each enqueue
\* two requests, the first with settleCoin USDT and the second with USDC, and
\* each still carries its own coin when it is sent: building the second
\* request does not change the first one's params.
C29_LinearCoinsDistinct ==
    \A path \in {"/v5/order/realtime", "/v5/position/list"} :
       LET params == LinearParams(path)
       IN /\ Len(params) <= 2
          /\ \A k \in 1..Len(params) : params[k]["settleCoin"].text = <<LinearCoins[k]>>

====
